---------------------------- MODULE Spec2Model ----------------------------
(***************************************************************************)
(* Rank-biserial correlation (src/rank_biserial_correlation.py and the     *)
(* class-wrapped duplicate in src/stat_pack.py).                           *)
(*                                                                         *)
(* The library is stateless: rank_biserial(x, y, coef) and p_value(x, y)   *)
(* are pure.  The model is a caller's session over one data set (x, y):    *)
(* every action is one call of a public operation, made on the indicator   *)
(* x or on its relabelling 1 - x.  A session makes up to two calls and      *)
(* keeps both (prev, then cur) with the locals each one computed, so that  *)
(* any two results on the same data can be compared.                       *)
(*                                                                         *)
(* Numbers are exact rationals <<num, den>> in lowest terms with den > 0   *)
(* (midranks are half-integers; the coefficients are quotients).           *)
(***************************************************************************)
EXTENDS Integers, Sequences, FiniteSets

VARIABLES x, y, cur, prev

vars == <<x, y, cur, prev>>

\* Longest data set drawn, and largest measurement value drawn.
MaxLen == 3
MaxVal == 3

---------------------------------------------------------------------------
(* Exact rational arithmetic                                               *)

Abs(a) == IF a < 0 THEN -a ELSE a

RECURSIVE Gcd(_, _)
Gcd(a, b) == IF b = 0 THEN a ELSE Gcd(b, a % b)

\* num/den in lowest terms, den > 0 (callers never pass den = 0).
Rat(num, den) ==
    LET g == Gcd(Abs(num), Abs(den))
        s == IF den < 0 THEN -1 ELSE 1
    IN  <<(s * num) \div g, (s * den) \div g>>

FromInt(k) == <<k, 1>>
RAdd(a, b) == Rat(a[1] * b[2] + b[1] * a[2], a[2] * b[2])
RSub(a, b) == Rat(a[1] * b[2] - b[1] * a[2], a[2] * b[2])
RMul(a, b) == Rat(a[1] * b[1], a[2] * b[2])
RDiv(a, b) == Rat(a[1] * b[2], a[2] * b[1])
RNeg(a) == <<-a[1], a[2]>>
RAbs(a) == <<Abs(a[1]), a[2]>>
RLe(a, b) == a[1] * b[2] <= b[1] * a[2]
RLt(a, b) == a[1] * b[2] < b[1] * a[2]

---------------------------------------------------------------------------
(* numpy / scipy / builtin primitives the code calls                       *)

\* Mutant of rankdata: ranks assigned in descending order of the values.
rankdataDescending(v) ==
    [i \in 1..Len(v) |->
        Rat(2 * Cardinality({j \in 1..Len(v) : v[j] > v[i]})
              + Cardinality({j \in 1..Len(v) : v[j] = v[i]}) + 1, 2)]

\* scipy.stats.rankdata(v), method 'average': a value's rank is the mean of
\* the sorted positions its ties occupy, (#smaller) + (#equal + 1)/2.
rankdata(v) ==
    [i \in 1..Len(v) |->
        Rat(2 * Cardinality({j \in 1..Len(v) : v[j] < v[i]})
              + Cardinality({j \in 1..Len(v) : v[j] = v[i]}) + 1, 2)]

\* a[ind == k]: boolean-mask indexing, order preserved.
RECURSIVE Mask(_, _, _)
Mask(a, ind, k) ==
    IF a = <<>> THEN <<>>
    ELSE IF Head(ind) = k THEN <<Head(a)>> \o Mask(Tail(a), Tail(ind), k)
    ELSE Mask(Tail(a), Tail(ind), k)

\* builtin sum(s)
RECURSIVE pysum(_)
pysum(s) == IF s = <<>> THEN FromInt(0) ELSE RAdd(Head(s), pysum(Tail(s)))

\* np.mean(s) of a non-empty array
npmean(s) == RDiv(pysum(s), FromInt(Len(s)))

\* builtin max(a, b) / min(a, b): the first argument wins a draw.
pymax(a, b) == IF RLt(a, b) THEN b ELSE a
pymin(a, b) == IF RLt(b, a) THEN b ELSE a

\* 1 - x: the indicator with the two labels exchanged.
Complement(ind) == [i \in 1..Len(ind) |-> 1 - ind[i]]

---------------------------------------------------------------------------
(* rank_biserial: the formulas of the three variants                       *)

\* Mutant of RbcGlass: n/2 in place of (n+1)/2.
RbcGlassNoPlusOne(n, n_p, mean_low) ==
    RMul(RDiv(FromInt(2), FromInt(n_p)),
         RSub(RDiv(FromInt(n), FromInt(2)), mean_low))

\* rbc_glass = (2/n_p)*(((n+1)/2)-mean_low)
RbcGlass(n, n_p, mean_low) ==
    RMul(RDiv(FromInt(2), FromInt(n_p)),
         RSub(RDiv(FromInt(n + 1), FromInt(2)), mean_low))

\* Mutant of U1Of: the size of the higher group in the triangular term.
U1OfHigherSize(n_p, n_q, R1) ==
    RSub(RAdd(FromInt(n_p * n_q), RDiv(FromInt(n_p * (n_p + 1)), FromInt(2))), R1)

\* U1 = (n_p * n_q) + ((n_q * (n_q + 1)) / 2) - R1
U1Of(n_p, n_q, R1) ==
    RSub(RAdd(FromInt(n_p * n_q), RDiv(FromInt(n_q * (n_q + 1)), FromInt(2))), R1)

\* U2 = (n_p * n_q) + ((n_p * (n_p + 1)) / 2) - R2
U2Of(n_p, n_q, R2) ==
    RSub(RAdd(FromInt(n_p * n_q), RDiv(FromInt(n_p * (n_p + 1)), FromInt(2))), R2)

\* Mutant of SelectU: the larger of the two in both branches
\* (U2 when U1 <= U2, U1 otherwise).
SelectULarger(U1, U2) == IF RLe(U1, U2) THEN U2 ELSE U1

\* U = max(U1, U2) if U1 <= U2 else min(U1, U2)
SelectU(U1, U2) == IF RLe(U1, U2) THEN pymax(U1, U2) ELSE pymin(U1, U2)

\* Mutant of RbcU: the factor 2 dropped.
RbcUNoDouble(U, n_p, n_q) ==
    RSub(FromInt(1), RDiv(U, FromInt(n_p * n_q)))

\* rbc_U = 1-((2*U)/(n_p*n_q))
RbcU(U, n_p, n_q) ==
    RSub(FromInt(1), RDiv(RMul(FromInt(2), U), FromInt(n_p * n_q)))

\* Mutant of InnerLoop: i >= j counted as a win of the higher group.
RECURSIVE InnerLoopTiesWin(_, _, _)
InnerLoopTiesWin(i, lower, acc) ==
    IF lower = <<>> THEN acc
    ELSE LET j == Head(lower)
             a == IF RLe(j, i) THEN <<acc[1] + 1, acc[2], acc[3] + 1>>
                  ELSE <<acc[1], acc[2] + 1, acc[3] + 1>>
         IN  InnerLoopTiesWin(i, Tail(lower), a)

\* The double loop of the 'simple' variant, one pass of the inner loop:
\* acc = <<len(i_higher), len(i_lower), num_pairs>> after comparing i with
\* every j of lower.
RECURSIVE InnerLoop(_, _, _)
InnerLoop(i, lower, acc) ==
    IF lower = <<>> THEN acc
    ELSE LET j == Head(lower)
             a == IF RLt(j, i) THEN <<acc[1] + 1, acc[2], acc[3] + 1>>
                  ELSE IF RLt(i, j) THEN <<acc[1], acc[2] + 1, acc[3] + 1>>
                  ELSE <<acc[1], acc[2], acc[3] + 1>>
         IN  InnerLoop(i, Tail(lower), a)

\* for i in higher: for j in lower: ...
RECURSIVE OuterLoop(_, _, _)
OuterLoop(higher, lower, acc) ==
    IF higher = <<>> THEN acc
    ELSE OuterLoop(Tail(higher), lower, InnerLoop(Head(higher), lower, acc))

\* r = (len(i_higher)/num_pairs) - (len(i_lower)/num_pairs)
RbcSimple(n_higher, n_lower, num_pairs) ==
    RSub(RDiv(FromInt(n_higher), FromInt(num_pairs)),
         RDiv(FromInt(n_lower), FromInt(num_pairs)))

---------------------------------------------------------------------------
(* The public operations                                                   *)

Zero == FromInt(0)

\* The record of a call: which operation ran on which indicator, how it
\* ended (kind), and the locals it had computed by then.
\*   kind = "value"             returned a string with a finite coefficient
\*          "nan"               returned a string whose coefficient is nan
\*          "None"              fell off the end of the function
\*          "ZeroDivisionError" raised by a Python-number division
\*          "ValueError"        raised by scipy (p_value only)
NoCall ==
    [op |-> "none", ind |-> <<>>, coef |-> "", kind |-> "none",
     r |-> Zero, U1 |-> Zero, U2 |-> Zero, U |-> Zero,
     ranks |-> <<>>, higher |-> <<>>, lower |-> <<>>,
     n |-> 0, n_p |-> 0, n_q |-> 0,
     n_higher |-> 0, n_lower |-> 0, num_pairs |-> 0]

\* Lines 47-53: rank, partition, count.
Partition(ind, v) ==
    LET ranks == rankdata(v)
        higher == Mask(ranks, ind, 1)
        lower == Mask(ranks, ind, 0)
    IN  [NoCall EXCEPT !.op = "rank_biserial", !.ind = ind,
                       !.ranks = ranks, !.higher = higher, !.lower = lower,
                       !.n = Len(ind), !.n_p = Len(higher), !.n_q = Len(lower)]

\* if coef == 'glass':  np.mean of an empty array is nan (a warning, no
\* exception); 2/n_p divides Python ints and raises when n_p is 0.
GlassBranch(c) ==
    IF c.n_p = 0 THEN [c EXCEPT !.kind = "ZeroDivisionError"]
    ELSE IF c.n_q = 0 THEN [c EXCEPT !.kind = "nan"]
    ELSE [c EXCEPT !.kind = "value",
                   !.r = RbcGlass(c.n, c.n_p, npmean(c.lower))]

\* if coef == 'u_stat':  with an empty group both U1 and U2 are 0.0 and
\* max() returns U1; U1 is a numpy float when lower is non-empty (n_p = 0:
\* 0.0/0 is nan) and a Python float when lower is empty (n_q = 0: raises).
UStatBranch(c) ==
    LET R1 == pysum(c.lower)
        R2 == pysum(c.higher)
        U1 == U1Of(c.n_p, c.n_q, R1)
        U2 == U2Of(c.n_p, c.n_q, R2)
        U == SelectU(U1, U2)
        d == [c EXCEPT !.U1 = U1, !.U2 = U2, !.U = U]
    IN  IF c.n_q = 0 THEN [d EXCEPT !.kind = "ZeroDivisionError"]
        ELSE IF c.n_p = 0 THEN [d EXCEPT !.kind = "nan"]
        ELSE [d EXCEPT !.kind = "value", !.r = RbcU(U, c.n_p, c.n_q)]

\* if coef == 'simple':  0/0 on Python ints raises when no pair exists.
SimpleBranch(c) ==
    LET acc == OuterLoop(c.higher, c.lower, <<0, 0, 0>>)
        d == [c EXCEPT !.n_higher = acc[1], !.n_lower = acc[2],
                       !.num_pairs = acc[3]]
    IN  IF acc[3] = 0 THEN [d EXCEPT !.kind = "ZeroDivisionError"]
        ELSE [d EXCEPT !.kind = "value",
                       !.r = RbcSimple(acc[1], acc[2], acc[3])]

\* rank_biserial(x, y, coef): no branch matches another selector and the
\* function ends without a return statement.
rank_biserial(ind, v, coef) ==
    LET c == [Partition(ind, v) EXCEPT !.coef = coef]
    IN  IF coef = "glass" THEN GlassBranch(c)
        ELSE IF coef = "u_stat" THEN UStatBranch(c)
        ELSE IF coef = "simple" THEN SimpleBranch(c)
        ELSE [c EXCEPT !.kind = "None"]

\* scipy.stats.mannwhitneyu(a, b).statistic: the U of the first sample,
\* its rank sum in the pooled sample minus n1*(n1+1)/2.
mannwhitneyu(a, b) ==
    LET ranks == rankdata(a \o b)
        n1 == Len(a)
        R1 == pysum(SubSeq(ranks, 1, n1))
    IN  RSub(R1, RDiv(FromInt(n1 * (n1 + 1)), FromInt(2)))

\* p_value(x, y): partitions the raw values and calls
\* mannwhitneyu(lower, higher).  With an empty sample scipy raises
\* ValueError or returns nan, depending on its version (onEmpty).
p_value(ind, v, onEmpty) ==
    LET higher == Mask(v, ind, 1)
        lower == Mask(v, ind, 0)
        c == [NoCall EXCEPT !.op = "p_value", !.ind = ind,
                            !.higher = higher, !.lower = lower,
                            !.n = Len(ind), !.n_p = Len(higher),
                            !.n_q = Len(lower)]
    IN  IF higher = <<>> \/ lower = <<>> THEN [c EXCEPT !.kind = onEmpty]
        ELSE [c EXCEPT !.kind = "value", !.U = mannwhitneyu(lower, higher)]

---------------------------------------------------------------------------
(* The session                                                             *)

\* The worked example of the documentation.
ExampleX == <<1, 1, 1, 0, 0>>
ExampleY == <<10, 20, 30, 5, 15>>

\* A selector that names no variant.
OtherCoefs == {"cureton"}

Init ==
    /\ \/ \E n \in 1..MaxLen :
             /\ x \in [1..n -> {0, 1}]
             /\ y \in [1..n -> 1..MaxVal]
       \/ x = ExampleX /\ y = ExampleY
    /\ cur = NoCall
    /\ prev = NoCall

\* The indicator a call is made on: x, or x with the labels exchanged.
Arg(flip) == IF flip THEN Complement(x) ELSE x

\* A session compares two calls: it ends after the second one.
Call(c) ==
    /\ prev.op = "none"
    /\ cur' = c
    /\ prev' = cur
    /\ UNCHANGED <<x, y>>

CallGlass == \E flip \in BOOLEAN : Call(rank_biserial(Arg(flip), y, "glass"))

CallUStat == \E flip \in BOOLEAN : Call(rank_biserial(Arg(flip), y, "u_stat"))

CallSimple == \E flip \in BOOLEAN : Call(rank_biserial(Arg(flip), y, "simple"))

CallOther ==
    \E flip \in BOOLEAN, coef \in OtherCoefs :
        Call(rank_biserial(Arg(flip), y, coef))

CallPValue ==
    \E flip \in BOOLEAN, onEmpty \in {"ValueError", "nan"} :
        Call(p_value(Arg(flip), y, onEmpty))

Next == CallGlass \/ CallUStat \/ CallSimple \/ CallOther \/ CallPValue

Spec == Init /\ [][Next]_vars

---------------------------------------------------------------------------
(* Vocabulary of the properties                                            *)

Variants == {"glass", "u_stat", "simple"}
One == FromInt(1)

IsCoef(c, k) == c.op = "rank_biserial" /\ c.coef = k
Valued(c) == c.kind = "value"
EmptyGroup(c) == c.n_p = 0 \/ c.n_q = 0
NoTies(v) == \A i, j \in DOMAIN v : i # j => v[i] # v[j]
HasTies(v) == ~NoTies(v)

\* The (higher, lower) index pairs of a call, and among them the pairs the
\* higher rank wins and the pairs it loses.
Pairs(c) == {p \in (DOMAIN c.ind) \X (DOMAIN c.ind) :
                c.ind[p[1]] = 1 /\ c.ind[p[2]] = 0}
W(c) == Cardinality({p \in Pairs(c) : RLt(c.ranks[p[2]], c.ranks[p[1]])})
L(c) == Cardinality({p \in Pairs(c) : RLt(c.ranks[p[1]], c.ranks[p[2]])})

\* Mann-Whitney U of the lower group counted on the raw values: the pairs
\* (lower, higher) with lower > higher, plus half the tied pairs.
PairU(ind, v) ==
    LET P == {p \in (DOMAIN ind) \X (DOMAIN ind) :
                 ind[p[1]] = 0 /\ ind[p[2]] = 1}
    IN  Rat(2 * Cardinality({p \in P : v[p[1]] > v[p[2]]})
              + Cardinality({p \in P : v[p[1]] = v[p[2]]}), 2)

---------------------------------------------------------------------------
(* C1 *)

\* C1: with both groups non-empty, the 'u_stat' coefficient r satisfies
\* 0 <= r <= 1.  (Stated as claimed; the code returns negative values.)
C1_UStatInUnitInterval ==
    \A k \in {1, 2} : LET c == IF k = 1 THEN cur ELSE prev IN
        IsCoef(c, "u_stat") /\ Valued(c) => RLe(Zero, c.r) /\ RLe(c.r, One)

---------------------------------------------------------------------------
(* C2 *)

\* C2: on tie-free data with both groups non-empty, any two of the variants
\* 'glass', 'u_stat', 'simple' called on the same indicator return the same
\* coefficient (hence all three agree).
C2_VariantsAgreeWithoutTies ==
    ( /\ NoTies(y)
      /\ cur.op = "rank_biserial" /\ prev.op = "rank_biserial"
      /\ cur.coef \in Variants /\ prev.coef \in Variants
      /\ cur.ind = prev.ind
      /\ Valued(cur) /\ Valued(prev) )
    => cur.r = prev.r

C2_Witness ==
    /\ NoTies(y) /\ Len(y) >= 3
    /\ IsCoef(prev, "glass") /\ IsCoef(cur, "simple")
    /\ cur.ind = prev.ind
    /\ Valued(cur) /\ Valued(prev)
    /\ cur.r # Zero /\ cur.r # One

---------------------------------------------------------------------------
(* C3 *)

\* C3: exchanging the labels of the indicator (x -> 1 - x) on the same
\* measurement negates the 'simple' coefficient and keeps the absolute
\* value of the 'u_stat' coefficient.
C3_RelabelNegatesSimple ==
    ( /\ cur.op = "rank_biserial" /\ prev.op = "rank_biserial"
      /\ cur.coef = prev.coef
      /\ cur.ind = Complement(prev.ind)
      /\ Valued(cur) /\ Valued(prev) )
    => /\ cur.coef = "simple" => cur.r = RNeg(prev.r)
       /\ cur.coef = "u_stat" => RAbs(cur.r) = RAbs(prev.r)

C3_Witness ==
    /\ IsCoef(prev, "simple") /\ IsCoef(cur, "simple")
    /\ cur.ind = Complement(prev.ind)
    /\ Valued(cur) /\ Valued(prev)
    /\ HasTies(y)
    /\ prev.r # Zero
    /\ prev.num_pairs > prev.n_higher + prev.n_lower

---------------------------------------------------------------------------
(* C4 *)

\* C4: with both groups non-empty, the U that the 'u_stat' variant reports
\* is the U that p_value obtains from mannwhitneyu(lower, higher) on the
\* same input; it is the rank sum of the lower group minus n_q*(n_q+1)/2,
\* i.e. the number of (lower, higher) pairs with lower > higher plus half
\* the tied pairs.
C4_UMatchesMannWhitney ==
    \A k \in {1, 2} :
        LET a == IF k = 1 THEN cur ELSE prev
            b == IF k = 1 THEN prev ELSE cur
        IN
        ( /\ IsCoef(a, "u_stat") /\ Valued(a)
          /\ b.op = "p_value" /\ Valued(b)
          /\ a.ind = b.ind )
        => /\ a.U = b.U
           /\ a.U = RSub(pysum(a.lower),
                         RDiv(FromInt(a.n_q * (a.n_q + 1)), FromInt(2)))
           /\ a.U = PairU(a.ind, y)

C4_Witness ==
    /\ IsCoef(prev, "u_stat") /\ Valued(prev)
    /\ cur.op = "p_value" /\ Valued(cur)
    /\ cur.ind = prev.ind
    /\ HasTies(y)
    /\ RLt(prev.U2, prev.U1)

---------------------------------------------------------------------------
(* C5 *)

\* C5: a call of rank_biserial whose indicator leaves one group empty ends
\* with InvalidInputError: no division by zero, no nan coefficient.
\* (Stated as claimed; the code has no such check.)
C5_EmptyGroupRaisesInvalidInput ==
    \A k \in {1, 2} : LET c == IF k = 1 THEN cur ELSE prev IN
        c.op = "rank_biserial" /\ c.coef \in Variants /\ EmptyGroup(c)
        => c.kind = "InvalidInputError"

---------------------------------------------------------------------------
(* C6 *)

\* C6: every call of rank_biserial, whatever the selector, either returns
\* a coefficient result or raises; it never returns without a coefficient.
\* (Stated as claimed; the code returns None for an unknown selector.)
C6_ResultOrError ==
    \A k \in {1, 2} : LET c == IF k = 1 THEN cur ELSE prev IN
        c.op = "rank_biserial"
        => c.kind \in {"value", "nan", "ZeroDivisionError", "InvalidInputError"}

---------------------------------------------------------------------------
(* C7 *)

IsExampleCall(c) ==
    /\ x = ExampleX /\ y = ExampleY
    /\ IsCoef(c, "simple") /\ c.ind = ExampleX

\* C7 as claimed: the example ranks to [3,4,5,1,2], higher = [3,4,5],
\* lower = [1,2], n_p = 3, n_q = 2, 5 higher-wins and 0 lower-wins over 6
\* pairs, coefficient (5 - 0)/6.
C7_ExampleAsClaimed ==
    \A k \in {1, 2} : LET c == IF k = 1 THEN cur ELSE prev IN
        IsExampleCall(c)
        => /\ c.ranks = <<FromInt(3), FromInt(4), FromInt(5), FromInt(1), FromInt(2)>>
           /\ c.higher = <<FromInt(3), FromInt(4), FromInt(5)>>
           /\ c.lower = <<FromInt(1), FromInt(2)>>
           /\ c.n_p = 3 /\ c.n_q = 2
           /\ c.n_higher = 5 /\ c.n_lower = 0 /\ c.num_pairs = 6
           /\ Valued(c) /\ c.r = Rat(5 - 0, 6)

\* C7 (amended): the example ranks to [2,4,5,1,3], higher = [2,4,5],
\* lower = [1,3], n_p = 3, n_q = 2, 5 higher-wins and 1 lower-win over 6
\* pairs, coefficient (5 - 1)/6 = 2/3.
C7_Example ==
    \A k \in {1, 2} : LET c == IF k = 1 THEN cur ELSE prev IN
        IsExampleCall(c)
        => /\ c.ranks = <<FromInt(2), FromInt(4), FromInt(5), FromInt(1), FromInt(3)>>
           /\ c.higher = <<FromInt(2), FromInt(4), FromInt(5)>>
           /\ c.lower = <<FromInt(1), FromInt(3)>>
           /\ c.n_p = 3 /\ c.n_q = 2
           /\ c.n_higher = 5 /\ c.n_lower = 1 /\ c.num_pairs = 6
           /\ Valued(c) /\ c.r = Rat(5 - 1, 6)

C7_Witness == IsExampleCall(cur)

---------------------------------------------------------------------------
(* C8 *)

\* C8: with both groups non-empty and any ties, the U1 and U2 computed by
\* the 'u_stat' variant satisfy U1 + U2 = n_p * n_q.
C8_USum ==
    \A k \in {1, 2} : LET c == IF k = 1 THEN cur ELSE prev IN
        IsCoef(c, "u_stat") /\ ~EmptyGroup(c)
        => RAdd(c.U1, c.U2) = FromInt(c.n_p * c.n_q)

C8_Witness ==
    /\ IsCoef(cur, "u_stat") /\ ~EmptyGroup(cur)
    /\ HasTies(y)
    /\ cur.U1[2] = 2
    /\ cur.n_p >= 2

---------------------------------------------------------------------------
(* C9 *)

\* C9 as claimed: the selected U is U2 when U1 <= U2 and U1 when U1 > U2.
C9_SelectionAsClaimed ==
    \A k \in {1, 2} : LET c == IF k = 1 THEN cur ELSE prev IN
        IsCoef(c, "u_stat") /\ ~EmptyGroup(c)
        => /\ RLe(c.U1, c.U2) => c.U = c.U2
           /\ RLt(c.U2, c.U1) => c.U = c.U1

\* C9 (amended): the selected U is U2 when U1 <= U2 and U2 (the smaller)
\* when U1 > U2: with both groups non-empty the selected U is always U2.
C9_SelectsU2 ==
    \A k \in {1, 2} : LET c == IF k = 1 THEN cur ELSE prev IN
        IsCoef(c, "u_stat") /\ ~EmptyGroup(c)
        => /\ RLe(c.U1, c.U2) => c.U = c.U2
           /\ RLt(c.U2, c.U1) => c.U = c.U2 /\ c.U = pymin(c.U1, c.U2)

C9_Witness ==
    /\ IsCoef(cur, "u_stat") /\ ~EmptyGroup(cur)
    /\ RLt(cur.U2, cur.U1)
    /\ cur.U = cur.U2

---------------------------------------------------------------------------
(* C10 *)

==========================================================================
